---- MODULE Spec2Model ----
(***************************************************************************)
(* Model of the bingo room server (src/server.js): the in-memory room and  *)
(* session registries, the REST operations that create and join rooms and  *)
(* the socket event handlers (joinAsHost, joinAsParticipant, drawNumber,   *)
(* markNumber, resetDraw, getRoomState, disconnect).                       *)
(*                                                                         *)
(* Every handler runs to completion before the next event is taken (one    *)
(* JavaScript event loop), so each handler is one action.  The variables   *)
(* ev and sent record the event handled last and what it emitted; they     *)
(* are the observable output of the server.                                *)
(***************************************************************************)
EXTENDS Integers, Sequences, FiniteSets, TLC

\* ---------------------------------------------------------------- bounds
\* Socket connections that may be alive at once.
MaxSockets == 1
\* Rooms that createRoom may create.
MaxRooms == 2
\* Participants that joinRoom may admit, all rooms together.
MaxParticipants == 2
\* The numbersPerCard rooms are configured with.
CardSize == 2
\* Math.random in generateBingoCard: a column of k numbers is sampled among
\* the first k + CardSlack values of its range.
CardSlack == 0
\* Math.random in drawNumber: the loop ends on one of the DrawWindow
\* smallest numbers not drawn yet.
DrawWindow == 2
\* Spec only: draws per room between two resets.
MaxDraws == 1
\* SpecView only: socket connections that may be alive at once.
MaxViewers == 2
\* SpecCard only: the numbersPerCard generateBingoCard is called with.
MaxCardInput == 80
\* SpecCard only, Math.random in generateBingoCard: the numbers of a column are
\* a run of its range, taken at one of CardWindows places from the bottom of
\* the range to its top.
CardWindows == 2

\* ------------------------------------------------------- program constants
maxNumber == 75
numbersPerRow == 5
centerCol == 2
\* JavaScript null (the free cell of a grid; a cleared timestamp).
Null == -1
\* A field the object literal does not set (room.lastDrawnAt before a draw).
Undefined == -2
\* A value of Date.now(); the model keeps no clock.
DateNow == 1

columnRanges ==
    [col \in 0..(numbersPerRow - 1) |-> [min |-> 15 * col + 1, max |-> 15 * col + 15]]

ErrRoomNotFound == "Sala nao encontrada"
ErrParticipantNotInRoom == "Participante nao encontrado na sala"
ErrOnlyHostDraws == "Apenas o host pode sortear numeros"
ErrAllDrawn == "Todos os numeros ja foram sorteados"
ErrParticipantNotFound == "Participante nao encontrado"
ErrNotOnCard == "Numero nao esta na sua cartela"
ErrOnlyHostResets == "Apenas o host pode reiniciar o sorteio"
ErrHostNameRequired == "Nome do host e obrigatorio"
ErrParticipantNameRequired == "Nome do participante e obrigatorio"

\* ------------------------------------------------------------ array helpers
Range(seq) == {seq[i] : i \in 1..Len(seq)}

\* Array.prototype.includes
Includes(seq, x) == \E i \in 1..Len(seq) : seq[i] = x

\* Array.prototype.indexOf, 1-based; 0 when absent (JavaScript's -1).
IndexOf(seq, x) ==
    IF Includes(seq, x) THEN CHOOSE i \in 1..Len(seq) :
                                 seq[i] = x /\ \A j \in 1..(i - 1) : seq[j] # x
    ELSE 0

\* Array.prototype.splice(index, 1)
Splice1(seq, i) == SubSeq(seq, 1, i - 1) \o SubSeq(seq, i + 1, Len(seq))

\* Array.prototype.push
Push(seq, x) == Append(seq, x)

\* Array.prototype.sort((a, b) => a - b)
SortAsc(seq) == SortSeq(seq, LAMBDA a, b : a - b < 0)

NoDuplicates(seq) == \A i, j \in 1..Len(seq) : i # j => seq[i] # seq[j]

\* ------------------------------------------------------- generateBingoCard
\* numbersPerColumn: base count of every column.
numbersPerColumn(numbersPerCard) == numbersPerCard \div numbersPerRow

remainder(numbersPerCard) == numbersPerCard % numbersPerRow

positionInNonCenter(col) == IF col < centerCol THEN col ELSE col - 1

\* Mutant: the center column takes its share of the remainder too.
baseTargetCountCenterToo(numbersPerCard, col) ==
    IF col < remainder(numbersPerCard)
    THEN numbersPerColumn(numbersPerCard) + 1
    ELSE numbersPerColumn(numbersPerCard)

\* targetCounts as the first loop leaves them, before the adjustment.
baseTargetCount(numbersPerCard, col) ==
    IF col = centerCol THEN numbersPerColumn(numbersPerCard)
    ELSE IF positionInNonCenter(col) < remainder(numbersPerCard)
         THEN numbersPerColumn(numbersPerCard) + 1
         ELSE numbersPerColumn(numbersPerCard)

RECURSIVE SumUpTo(_, _)
SumUpTo(f, n) == IF n < 0 THEN 0 ELSE f[n] + SumUpTo(f, n - 1)

\* targetCounts after the adjustment of the last column.
targetCounts(numbersPerCard) ==
    LET base == [col \in 0..(numbersPerRow - 1) |-> baseTargetCount(numbersPerCard, col)]
        totalTarget == SumUpTo(base, numbersPerRow - 1)
    IN  IF totalTarget # numbersPerCard
        THEN [base EXCEPT ![numbersPerRow - 1] = @ + (numbersPerCard - totalTarget)]
        ELSE base

Min(a, b) == IF a < b THEN a ELSE b

\* The sets of count distinct numbers the sampling loop of one column can end
\* with: none when the range holds fewer than count numbers (the loop never
\* ends).
ColumnSamples(col, count) ==
    LET range == columnRanges[col]
        pool == range.min..Min(range.max, range.min + count + CardSlack - 1)
    IN  {S \in SUBSET pool : Cardinality(S) = count}

RECURSIVE SetToSeq(_)
SetToSeq(S) ==
    IF S = {} THEN <<>>
    ELSE LET x == CHOOSE y \in S : TRUE IN <<x>> \o SetToSeq(S \ {x})

\* columnNumbers[col] after its sort, for one outcome of the sampling.
SortedColumn(S) == SortAsc(SetToSeq(S))

\* The flat number lists (cardData.numbers) generateBingoCard can return.
CardNumbers(numbersPerCard) ==
    LET counts == targetCounts(numbersPerCard)
    IN  {SortAsc(SortedColumn(c0) \o SortedColumn(c1) \o SortedColumn(c2)
                 \o SortedColumn(c3) \o SortedColumn(c4)) :
            c0 \in ColumnSamples(0, counts[0]), c1 \in ColumnSamples(1, counts[1]),
            c2 \in ColumnSamples(2, counts[2]), c3 \in ColumnSamples(3, counts[3]),
            c4 \in ColumnSamples(4, counts[4])}

\* The sets of count numbers the sampling loop of one column ends with in
\* SpecCard: runs of the column's range, from its bottom to its top; none when
\* the range holds fewer than count numbers.
ColumnRuns(col, count) ==
    LET range == columnRanges[col]
        spare == (range.max - range.min + 1) - count
    IN  IF spare < 0 THEN {}
        ELSE {{range.min + ((k * spare) \div (CardWindows - 1)) + i : i \in 0..(count - 1)} :
                 k \in 0..(CardWindows - 1)}

\* allNumbers: the columns' numbers in one array, sorted.
AllNumbers(columnNumbers) ==
    SortAsc(columnNumbers[1] \o columnNumbers[2] \o columnNumbers[3]
            \o columnNumbers[4] \o columnNumbers[5])

\* Mutant: no space is counted for the free cell.
totalSpacesNoFree(numbersPerCard) == numbersPerCard

totalSpaces(numbersPerCard) == numbersPerCard + 1

\* Math.ceil(totalSpaces / numbersPerRow)
numbersPerCol(numbersPerCard) ==
    (totalSpaces(numbersPerCard) + numbersPerRow - 1) \div numbersPerRow

\* Mutant: the free cell is put in the first row.
centerRowTop(rowCount) == 0

\* Math.floor(numbersPerCol / 2)
centerRow(rowCount) == rowCount \div 2

\* matrix[col][row]: the free cell, the next number of the column, or null
\* when the column has no number left.
MatrixCell(columnNumbers, rowCount, col, row) ==
    LET numbers == columnNumbers[col + 1]
        free == centerRow(rowCount)
        numberIndex == IF col = centerCol /\ row > free THEN row - 1 ELSE row
    IN  IF row = free /\ col = centerCol THEN Null
        ELSE IF numberIndex < Len(numbers) THEN numbers[numberIndex + 1]
        ELSE Null

\* grid: the matrix, row by row.
Grid(columnNumbers, rowCount) ==
    [i \in 1..(rowCount * numbersPerRow) |->
        MatrixCell(columnNumbers, rowCount, (i - 1) % numbersPerRow, (i - 1) \div numbersPerRow)]

\* --------------------------------------------------------------- the state
VARIABLES
    rooms,      \* rooms: roomId -> room
    users,      \* users: socketId -> [userId, roomId, isHost]
    connected,  \* the sockets whose connection is open
    joined,     \* socket.io membership: socketId -> set of roomIds joined
    ev,         \* the event being answered, NoEvent between two events
    sent,       \* what the handler of ev emitted, in order
    \* What an observer of the wire has gathered from the messages delivered:
    drawCount,  \* roomId -> numberDrawn broadcasts since the last drawReset
    announced,  \* the participants a bingo was broadcast for since the last drawReset
    seen,       \* userId -> the markedNumbers last sent for that participant
    trail,      \* the run of successful markNumber of one number by one participant
    \* What each connection has been sent:
    viewDrawn,  \* socketId -> roomId -> the drawnNumbers last sent to it
    viewMarks,  \* socketId -> userId -> the markedNumbers last sent to it
    \* One call of generateBingoCard, column by column:
    gen

obs == <<drawCount, announced, seen, trail, viewDrawn, viewMarks, gen>>

vars == <<rooms, users, connected, joined, ev, sent, drawCount, announced, seen, trail,
          viewDrawn, viewMarks, gen>>

SocketIds == 1..MaxSockets
ViewerIds == 1..MaxViewers
RoomIds == 1..MaxRooms
ParticipantIds == 1..MaxParticipants
\* The userId a host page sends with joinAsHost; never a participant id.
HostUserId == 0
HostNames == {"", "Ana"}
ParticipantNames == {"", "Bruno"}

\* ------------------------------------------------------------------ output
ToSocket(s) == [kind |-> "socket", id |-> s]
\* Mutant: the broadcast goes to a room no connection has joined.
ToRoomNobody(r) == [kind |-> "room", id |-> 0]

ToRoom(r) == [kind |-> "room", id |-> r]
ToHttp == [kind |-> "http", id |-> 0]

Emit(to, name, data) == [to |-> to, name |-> name, data |-> data]

\* Mutant: io.emit in place of socket.emit, the error goes to every connection.
SocketErrorToAll(s, message) ==
    Emit([kind |-> "all", id |-> 0], "error", [message |-> message])

SocketError(s, message) == Emit(ToSocket(s), "error", [message |-> message])

HttpError(status, message) ==
    Emit(ToHttp, "response", [status |-> status, error |-> message])

Event(op, sock, roomId, userId, number) ==
    [op |-> op, sock |-> sock, roomId |-> roomId, userId |-> userId, number |-> number]

NoEvent == Event("none", 0, 0, 0, 0)

EmptyMap == [x \in {} |-> x]

\* Map.prototype.set / obj[key] = value
MapSet(map, key, value) ==
    [k \in (DOMAIN map) \cup {key} |-> IF k = key THEN value ELSE map[k]]

\* Mutant: users.clear() in place of users.delete(socket.id).
MapDeleteAll(map, key) == EmptyMap

\* Map.prototype.delete
MapDelete(map, key) == [k \in (DOMAIN map) \ {key} |-> map[k]]

NoTrail == [userId |-> 0, number |-> 0, count |-> 0, before |-> <<>>, after |-> <<>>]

\* What a connection holds for a room or a participant before any message
\* about it has reached the connection.
NotSent == <<Undefined>>

\* No call of generateBingoCard is in progress.
NoCall ==
    [pc |-> "none", numbersPerCard |-> 0, columnNumbers |-> <<>>, numbers |-> <<>>,
     grid |-> <<>>, numbersPerCol |-> 0, centerRow |-> 0]

\* The event loop is between two events: the last one's messages have left.
Idle == ev = NoEvent

Init ==
    /\ rooms = EmptyMap
    /\ users = EmptyMap
    /\ connected = {}
    /\ joined = [s \in SocketIds |-> {}]
    /\ ev = NoEvent
    /\ sent = <<>>
    /\ drawCount = [r \in RoomIds |-> 0]
    /\ announced = {}
    /\ seen = [u \in ParticipantIds |-> <<>>]
    /\ trail = NoTrail
    /\ viewDrawn = [s \in ViewerIds |-> [r \in RoomIds |-> NotSent]]
    /\ viewMarks = [s \in ViewerIds |-> [u \in ParticipantIds |-> NotSent]]
    /\ gen = NoCall

\* ------------------------------------------------------------ REST handlers
\* uuidv4(): an id no room has yet (the smallest such, ids being opaque).
FreshRoomId == CHOOSE r \in RoomIds \ DOMAIN rooms : \A q \in RoomIds \ DOMAIN rooms : r <= q

AllParticipantIds == UNION {DOMAIN rooms[r].participants : r \in DOMAIN rooms}

\* uuidv4(): an id no participant has yet.
FreshUserId ==
    CHOOSE u \in ParticipantIds \ AllParticipantIds :
        \A q \in ParticipantIds \ AllParticipantIds : u <= q

NewRoom(roomId, hostName, numbersPerCard) ==
    [id |-> roomId, hostName |-> hostName, numbersPerCard |-> numbersPerCard,
     drawnNumbers |-> <<>>, participants |-> EmptyMap, lastDrawnAt |-> Undefined]

\* app.post('/api/rooms')
CreateRoom(hostName, numbersPerCard) ==
    /\ Idle
    /\ hostName # "" => RoomIds \ DOMAIN rooms # {}
    /\ IF hostName = ""
       THEN /\ ev' = Event("createRoom", 0, 0, 0, 0)
            /\ sent' = <<HttpError(400, ErrHostNameRequired)>>
            /\ UNCHANGED rooms
       ELSE LET roomId == FreshRoomId
                room == NewRoom(roomId, hostName, numbersPerCard)
            IN  /\ ev' = Event("createRoom", 0, roomId, 0, 0)
                /\ rooms' = MapSet(rooms, roomId, room)
                /\ sent' = <<Emit(ToHttp, "response",
                                  [status |-> 200, roomId |-> roomId, room |-> room])>>
    /\ UNCHANGED <<users, connected, joined>>
    /\ UNCHANGED obs

\* app.get('/api/rooms/:roomId')
GetRoom(roomId) ==
    /\ Idle
    /\ ev' = Event("getRoom", 0, roomId, 0, 0)
    /\ IF roomId \notin DOMAIN rooms
       THEN sent' = <<HttpError(404, ErrRoomNotFound)>>
       ELSE sent' = <<Emit(ToHttp, "response", [status |-> 200, room |-> rooms[roomId]])>>
    /\ UNCHANGED <<rooms, users, connected, joined>>
    /\ UNCHANGED obs

NewParticipant(userId, participantName, card) ==
    [id |-> userId, name |-> participantName, card |-> card, markedNumbers |-> <<>>]

\* app.post('/api/rooms/:roomId/join')
JoinRoom(roomId, participantName) ==
    /\ Idle
    /\ ev' = Event("joinRoom", 0, roomId, 0, 0)
    /\ (participantName # "" /\ roomId \in DOMAIN rooms)
           => ParticipantIds \ AllParticipantIds # {}
    /\ IF participantName = ""
       THEN /\ sent' = <<HttpError(400, ErrParticipantNameRequired)>>
            /\ UNCHANGED rooms
       ELSE IF roomId \notin DOMAIN rooms
       THEN /\ sent' = <<HttpError(404, ErrRoomNotFound)>>
            /\ UNCHANGED rooms
       ELSE \E card \in CardNumbers(rooms[roomId].numbersPerCard) :
                LET userId == FreshUserId
                    participant == NewParticipant(userId, participantName, card)
                    room == [rooms[roomId] EXCEPT
                                !.participants = MapSet(@, userId, participant)]
                IN  /\ rooms' = MapSet(rooms, roomId, room)
                    /\ sent' = <<Emit(ToRoom(roomId), "participantJoined",
                                      [participant |-> participant,
                                       participantCount |-> Cardinality(DOMAIN room.participants)]),
                                 Emit(ToHttp, "response",
                                      [status |-> 200, userId |-> userId, room |-> room,
                                       participant |-> participant])>>
    /\ UNCHANGED <<users, connected, joined>>
    /\ UNCHANGED obs

\* ---------------------------------------------------------- socket handlers
\* io.on('connection')
Connect(s) ==
    /\ Idle
    /\ s \notin connected
    /\ connected' = connected \cup {s}
    /\ ev' = Event("connection", s, 0, 0, 0)
    /\ sent' = <<>>
    /\ UNCHANGED <<rooms, users, joined>>
    /\ UNCHANGED obs

Session(userId, roomId, isHost) == [userId |-> userId, roomId |-> roomId, isHost |-> isHost]

\* socket.on('joinAsHost')
JoinAsHost(s, roomId, userId) ==
    /\ Idle
    /\ s \in connected
    /\ ev' = Event("joinAsHost", s, roomId, userId, 0)
    /\ IF roomId \notin DOMAIN rooms
       THEN /\ sent' = <<SocketError(s, ErrRoomNotFound)>>
            /\ UNCHANGED <<users, joined>>
       ELSE /\ joined' = [joined EXCEPT ![s] = @ \cup {roomId}]
            /\ users' = MapSet(users, s, Session(userId, roomId, TRUE))
            /\ sent' = <<Emit(ToSocket(s), "roomJoined",
                              [room |-> rooms[roomId], isHost |-> TRUE])>>
    /\ UNCHANGED <<rooms, connected>>
    /\ UNCHANGED obs

\* socket.on('joinAsParticipant')
JoinAsParticipant(s, roomId, userId) ==
    /\ Idle
    /\ s \in connected
    /\ ev' = Event("joinAsParticipant", s, roomId, userId, 0)
    /\ IF roomId \notin DOMAIN rooms
       THEN /\ sent' = <<SocketError(s, ErrRoomNotFound)>>
            /\ UNCHANGED <<users, joined>>
       ELSE IF userId \notin DOMAIN rooms[roomId].participants
       THEN /\ sent' = <<SocketError(s, ErrParticipantNotInRoom)>>
            /\ UNCHANGED <<users, joined>>
       ELSE /\ joined' = [joined EXCEPT ![s] = @ \cup {roomId}]
            /\ users' = MapSet(users, s, Session(userId, roomId, FALSE))
            /\ sent' = <<Emit(ToSocket(s), "roomJoined",
                              [room |-> rooms[roomId], isHost |-> FALSE,
                               participant |-> rooms[roomId].participants[userId]])>>
    /\ UNCHANGED <<rooms, connected>>
    /\ UNCHANGED obs

\* Mutant: only a missing session is refused.
NotHostNoSession(userMap, s) == s \notin DOMAIN userMap

\* !userInfo || !userInfo.isHost
NotHost(userMap, s) == s \notin DOMAIN userMap \/ ~userMap[s].isHost

\* Mutant: > in place of >=.
AllDrawnPastMax(drawnNumbers) == Len(drawnNumbers) > maxNumber

\* room.drawnNumbers.length >= maxNumber
AllDrawn(drawnNumbers) == Len(drawnNumbers) >= maxNumber

\* Mutant: the + 1 is missing.
RandomNumbersFromZero == {n : n \in 0..(maxNumber - 1)}

\* Math.floor(Math.random() * maxNumber) + 1
RandomNumbers == {n + 1 : n \in 0..(maxNumber - 1)}

\* The numbers the do-while loop can leave in number: a random number that
\* drawnNumbers does not include, here among the DrawWindow smallest of them.
DrawOutcomes(drawnNumbers) ==
    LET free == {n \in RandomNumbers : ~Includes(drawnNumbers, n)}
    IN  {n \in free : Cardinality({m \in free : m < n}) < DrawWindow}

\* Mutant: the sort after the push is missing.
AfterDrawUnsorted(room, number) ==
    [room EXCEPT !.drawnNumbers = Push(@, number), !.lastDrawnAt = DateNow]

\* push, sort and the timestamp of drawNumber
AfterDraw(room, number) ==
    [room EXCEPT !.drawnNumbers = SortAsc(Push(@, number)), !.lastDrawnAt = DateNow]

\* socket.on('drawNumber')
DrawNumber(s, roomId) ==
    /\ Idle
    /\ s \in connected
    /\ ev' = Event("drawNumber", s, roomId, 0, 0)
    /\ IF NotHost(users, s)
       THEN /\ sent' = <<SocketError(s, ErrOnlyHostDraws)>>
            /\ UNCHANGED rooms
       ELSE IF roomId \notin DOMAIN rooms
       THEN /\ sent' = <<SocketError(s, ErrRoomNotFound)>>
            /\ UNCHANGED rooms
       ELSE IF AllDrawn(rooms[roomId].drawnNumbers)
       THEN /\ sent' = <<SocketError(s, ErrAllDrawn)>>
            /\ UNCHANGED rooms
       ELSE \E number \in DrawOutcomes(rooms[roomId].drawnNumbers) :
                LET room == AfterDraw(rooms[roomId], number)
                IN  /\ rooms' = MapSet(rooms, roomId, room)
                    /\ sent' = <<Emit(ToRoom(roomId), "numberDrawn",
                                      [number |-> number,
                                       drawnNumbers |-> room.drawnNumbers,
                                       totalDrawn |-> Len(room.drawnNumbers)])>>
    /\ UNCHANGED <<users, connected, joined>>
    /\ UNCHANGED obs

\* drawNumber is in its do-while loop: its checks have passed and nothing is
\* emitted yet.
Sampling == ev.op = "drawNumber" /\ sent = <<>>

\* socket.on('drawNumber') up to its do-while loop: the three checks.
DrawEnter(s, roomId) ==
    /\ Idle
    /\ s \in connected
    /\ ev' = Event("drawNumber", s, roomId, 0, 0)
    /\ sent' = IF NotHost(users, s) THEN <<SocketError(s, ErrOnlyHostDraws)>>
               ELSE IF roomId \notin DOMAIN rooms THEN <<SocketError(s, ErrRoomNotFound)>>
               ELSE IF AllDrawn(rooms[roomId].drawnNumbers)
               THEN <<SocketError(s, ErrAllDrawn)>>
               ELSE <<>>
    /\ UNCHANGED <<rooms, users, connected, joined>>
    /\ UNCHANGED obs

\* number is one of DrawOutcomes(drawnNumbers): drawnNumbers does not include
\* it, and fewer than DrawWindow smaller numbers are not drawn either.
InDrawWindow(drawnNumbers, number) ==
    /\ ~Includes(drawnNumbers, number)
    /\ Cardinality({m \in 1..(number - 1) : ~Includes(drawnNumbers, m)}) < DrawWindow

\* The turn of the do-while loop that ends it, and the rest of drawNumber.  A
\* turn whose number drawnNumbers includes changes nothing and is taken again.
DrawSample ==
    /\ Sampling
    /\ \E number \in RandomNumbers :
           LET room == AfterDraw(rooms[ev.roomId], number)
           IN  /\ InDrawWindow(rooms[ev.roomId].drawnNumbers, number)
               /\ rooms' = MapSet(rooms, ev.roomId, room)
               /\ sent' = <<Emit(ToRoom(ev.roomId), "numberDrawn",
                                 [number |-> number,
                                  drawnNumbers |-> room.drawnNumbers,
                                  totalDrawn |-> Len(room.drawnNumbers)])>>
    /\ UNCHANGED <<ev, users, connected, joined>>
    /\ UNCHANGED obs

\* Mutant: the number is pushed whether it is marked or not.
ToggleMarkAlwaysPush(markedNumbers, number) == Push(markedNumbers, number)

\* Mutant: unshift in place of push, a new mark goes to the front.
ToggleMarkUnshift(markedNumbers, number) ==
    LET index == IndexOf(markedNumbers, number)
    IN  IF index > 0 THEN Splice1(markedNumbers, index) ELSE <<number>> \o markedNumbers

\* The toggle of markNumber: splice the number out when indexOf finds it, push
\* it otherwise.
ToggleMark(markedNumbers, number) ==
    LET index == IndexOf(markedNumbers, number)
    IN  IF index > 0 THEN Splice1(markedNumbers, index) ELSE Push(markedNumbers, number)

\* Mutant: the free cell is counted among the cells to mark.
HasBingoCountsFreeCell(participant) ==
    Len(participant.markedNumbers) = Len(participant.card) + 1

\* Mutant: one number short of the card already wins.
HasBingoOneShort(participant) ==
    Len(participant.markedNumbers) + 1 >= Len(participant.card)

\* Mutant: any number of the bingo range is accepted.
OnCardAnyNumber(participant, number) == number \in 1..maxNumber

\* !participant.card.includes(number), negated
OnCard(participant, number) == Includes(participant.card, number)

\* participant.markedNumbers.length === participant.card.length
HasBingo(participant) == Len(participant.markedNumbers) = Len(participant.card)

\* socket.on('markNumber')
MarkNumber(s, roomId, userId, number) ==
    /\ Idle
    /\ s \in connected
    /\ ev' = Event("markNumber", s, roomId, userId, number)
    /\ IF roomId \notin DOMAIN rooms
       THEN /\ sent' = <<SocketError(s, ErrRoomNotFound)>>
            /\ UNCHANGED rooms
       ELSE IF userId \notin DOMAIN rooms[roomId].participants
       THEN /\ sent' = <<SocketError(s, ErrParticipantNotFound)>>
            /\ UNCHANGED rooms
       ELSE IF ~OnCard(rooms[roomId].participants[userId], number)
       THEN /\ sent' = <<SocketError(s, ErrNotOnCard)>>
            /\ UNCHANGED rooms
       ELSE LET participant ==
                    [rooms[roomId].participants[userId] EXCEPT
                        !.markedNumbers = ToggleMark(@, number)]
                room == [rooms[roomId] EXCEPT !.participants[userId] = participant]
                hasBingo == HasBingo(participant)
                numberMarked == Emit(ToSocket(s), "numberMarked",
                                     [number |-> number,
                                      markedNumbers |-> participant.markedNumbers,
                                      hasBingo |-> hasBingo])
                bingo == Emit(ToRoom(roomId), "bingo",
                              [participantId |-> userId,
                               participantName |-> participant.name])
            IN  /\ rooms' = MapSet(rooms, roomId, room)
                /\ sent' = IF hasBingo THEN <<numberMarked, bingo>> ELSE <<numberMarked>>
    /\ UNCHANGED <<users, connected, joined>>
    /\ UNCHANGED obs

\* Mutant: the marks of the participants are not cleared.
AfterResetKeepsMarks(room) ==
    [room EXCEPT !.drawnNumbers = <<>>, !.lastDrawnAt = Null]

\* Mutant: the participants are dropped with their marks.
AfterResetDropsParticipants(room) ==
    [room EXCEPT !.drawnNumbers = <<>>, !.lastDrawnAt = Null, !.participants = EmptyMap]

\* The state resetDraw leaves a room in.
AfterReset(room) ==
    [room EXCEPT !.drawnNumbers = <<>>,
                 !.lastDrawnAt = Null,
                 !.participants = [u \in DOMAIN @ |-> [@[u] EXCEPT !.markedNumbers = <<>>]]]

\* socket.on('resetDraw')
ResetDraw(s, roomId) ==
    /\ Idle
    /\ s \in connected
    /\ ev' = Event("resetDraw", s, roomId, 0, 0)
    /\ IF NotHost(users, s)
       THEN /\ sent' = <<SocketError(s, ErrOnlyHostResets)>>
            /\ UNCHANGED rooms
       ELSE IF roomId \notin DOMAIN rooms
       THEN /\ sent' = <<SocketError(s, ErrRoomNotFound)>>
            /\ UNCHANGED rooms
       ELSE LET room == AfterReset(rooms[roomId])
            IN  /\ rooms' = MapSet(rooms, roomId, room)
                /\ sent' = <<Emit(ToRoom(roomId), "drawReset", [room |-> room])>>
    /\ UNCHANGED <<users, connected, joined>>
    /\ UNCHANGED obs

\* socket.on('getRoomState')
GetRoomState(s, roomId) ==
    /\ Idle
    /\ s \in connected
    /\ ev' = Event("getRoomState", s, roomId, 0, 0)
    /\ IF roomId \notin DOMAIN rooms
       THEN sent' = <<SocketError(s, ErrRoomNotFound)>>
       ELSE LET room == rooms[roomId]
                isHost == IF s \in DOMAIN users THEN users[s].isHost ELSE FALSE
            IN  IF /\ s \in DOMAIN users
                   /\ ~users[s].isHost
                   /\ users[s].userId \in DOMAIN room.participants
                THEN sent' = <<Emit(ToSocket(s), "roomState",
                                    [room |-> room, isHost |-> isHost,
                                     participant |-> room.participants[users[s].userId]])>>
                ELSE sent' = <<Emit(ToSocket(s), "roomState",
                                    [room |-> room, isHost |-> isHost])>>
    /\ UNCHANGED <<rooms, users, connected, joined>>
    /\ UNCHANGED obs

\* socket.on('disconnect'); socket.io takes a closed socket out of its rooms.
Disconnect(s) ==
    /\ Idle
    /\ s \in connected
    /\ ev' = Event("disconnect", s, 0, 0, 0)
    /\ users' = IF s \in DOMAIN users THEN MapDelete(users, s) ELSE users
    /\ connected' = connected \ {s}
    /\ joined' = [joined EXCEPT ![s] = {}]
    /\ sent' = <<>>
    /\ UNCHANGED rooms
    /\ UNCHANGED obs

\* The handler has returned and its messages have been written out; the event
\* loop takes the next event.
Deliver ==
    /\ ~Idle
    /\ ev' = NoEvent
    /\ sent' = <<>>
    /\ UNCHANGED <<rooms, users, connected, joined>>
    /\ UNCHANGED obs

\* ---------------------------------------------------------------- observer
\* What one delivered message adds to the observer's record o; request is the
\* event the message answers.
ObserveMessage(o, request, m) ==
    IF m.name = "numberDrawn"
    THEN [o EXCEPT !.drawCount[m.to.id] = @ + 1]
    ELSE IF m.name = "drawReset"
    THEN LET members == DOMAIN m.data.room.participants
         IN  [o EXCEPT !.drawCount[m.to.id] = 0,
                       !.announced = @ \ members,
                       !.seen = [u \in DOMAIN @ |-> IF u \in members THEN <<>> ELSE @[u]],
                       !.trail = NoTrail]
    ELSE IF m.name = "bingo"
    THEN [o EXCEPT !.announced = @ \cup {m.data.participantId}]
    ELSE IF m.name = "numberMarked"
    THEN [o EXCEPT
            !.seen[request.userId] = m.data.markedNumbers,
            !.trail = IF /\ @.count = 1
                         /\ @.userId = request.userId
                         /\ @.number = request.number
                      THEN [@ EXCEPT !.count = 2, !.after = m.data.markedNumbers]
                      ELSE [userId |-> request.userId, number |-> request.number,
                            count |-> 1, before |-> o.seen[request.userId],
                            after |-> m.data.markedNumbers]]
    ELSE o

RECURSIVE ObserveAll(_, _, _)
ObserveAll(o, request, messages) ==
    IF messages = <<>> THEN o
    ELSE ObserveAll(ObserveMessage(o, request, Head(messages)), request, Tail(messages))

\* Deliver, with the observer reading the messages as they leave.
DeliverObserved ==
    /\ ~Idle
    /\ ev' = NoEvent
    /\ sent' = <<>>
    /\ UNCHANGED <<rooms, users, connected, joined>>
    /\ LET o == ObserveAll([drawCount |-> drawCount, announced |-> announced,
                            seen |-> seen, trail |-> trail], ev, sent)
       IN  /\ drawCount' = o.drawCount
           /\ announced' = o.announced
           /\ seen' = o.seen
           /\ trail' = o.trail
    /\ UNCHANGED <<viewDrawn, viewMarks, gen>>

\* ------------------------------------------------------------ connections
\* The connections a message reaches: socket.emit reaches the socket,
\* io.to(roomId).emit the open sockets that joined the room.
Recipients(m) ==
    IF m.to.kind = "socket" THEN {m.to.id} \cap connected
    ELSE IF m.to.kind = "room" THEN {s \in connected : m.to.id \in joined[s]}
    ELSE IF m.to.kind = "all" THEN connected
    ELSE {}

\* The markedNumbers a room snapshot carries, over what v held before.
MarksInRoom(v, room) ==
    [u \in DOMAIN v |-> IF u \in DOMAIN room.participants
                         THEN room.participants[u].markedNumbers
                         ELSE v[u]]

\* What connection s holds after message m of the answer to request: w is
\* [drawn, marks], the drawnNumbers and markedNumbers last sent to s.
ViewMessage(w, s, request, m) ==
    IF s \notin Recipients(m) THEN w
    ELSE IF m.name \in {"roomJoined", "drawReset"}
    THEN [drawn |-> [w.drawn EXCEPT ![m.data.room.id] = m.data.room.drawnNumbers],
          marks |-> MarksInRoom(w.marks, m.data.room)]
    ELSE IF m.name = "numberDrawn"
    THEN [w EXCEPT !.drawn[request.roomId] = m.data.drawnNumbers]
    ELSE IF m.name = "numberMarked"
    THEN [w EXCEPT !.marks[request.userId] = m.data.markedNumbers]
    ELSE w

RECURSIVE ViewAll(_, _, _, _)
ViewAll(w, s, request, messages) ==
    IF messages = <<>> THEN w
    ELSE ViewAll(ViewMessage(w, s, request, Head(messages)), s, request, Tail(messages))

\* Deliver, with every connection reading the messages that reach it; a
\* connection that has closed holds nothing.
DeliverViewed ==
    /\ ~Idle
    /\ ev' = NoEvent
    /\ sent' = <<>>
    /\ UNCHANGED <<rooms, users, connected, joined>>
    /\ LET after(s) == ViewAll([drawn |-> viewDrawn[s], marks |-> viewMarks[s]], s, ev, sent)
       IN  /\ viewDrawn' = [s \in ViewerIds |->
                               IF s \in connected THEN after(s).drawn
                               ELSE [r \in RoomIds |-> NotSent]]
           /\ viewMarks' = [s \in ViewerIds |->
                               IF s \in connected THEN after(s).marks
                               ELSE [u \in ParticipantIds |-> NotSent]]
    /\ UNCHANGED <<drawCount, announced, seen, trail, gen>>

\* ------------------------------------------------- generateBingoCard, stepwise
\* generateBingoCard(numbersPerCard) has been called.
Call(numbersPerCard) ==
    [NoCall EXCEPT !.pc = "sampling", !.numbersPerCard = numbersPerCard]

\* One turn of the loop over the columns: the while loop samples the column's
\* numbers, which are sorted and pushed.  When the target count is more than
\* the range holds, the while loop never ends.
SampleColumn ==
    /\ gen.pc = "sampling"
    /\ Len(gen.columnNumbers) < numbersPerRow
    /\ LET col == Len(gen.columnNumbers)
           count == targetCounts(gen.numbersPerCard)[col]
       IN  IF ColumnRuns(col, count) = {}
           THEN gen' = [gen EXCEPT !.pc = "spinning"]
           ELSE \E S \in ColumnRuns(col, count) :
                    gen' = [gen EXCEPT !.columnNumbers = Append(@, SortedColumn(S))]
    /\ UNCHANGED <<rooms, users, connected, joined, ev, sent>>
    /\ UNCHANGED <<drawCount, announced, seen, trail, viewDrawn, viewMarks>>

\* The rest of generateBingoCard: allNumbers, the grid and the return.
ReturnCard ==
    /\ gen.pc = "sampling"
    /\ Len(gen.columnNumbers) = numbersPerRow
    /\ gen' = [gen EXCEPT
                  !.pc = "returned",
                  !.numbers = AllNumbers(gen.columnNumbers),
                  !.grid = Grid(gen.columnNumbers, numbersPerCol(gen.numbersPerCard)),
                  !.numbersPerCol = numbersPerCol(gen.numbersPerCard),
                  !.centerRow = centerRow(numbersPerCol(gen.numbersPerCard))]
    /\ UNCHANGED <<rooms, users, connected, joined, ev, sent>>
    /\ UNCHANGED <<drawCount, announced, seen, trail, viewDrawn, viewMarks>>

\* ------------------------------------------------------------ specification
\* The numbers a page can send with markNumber: the numbers of the cards in
\* play, the numbers drawn so far, and the free cell.
MarkInputs ==
    {Null}
    \cup UNION {UNION {Range(rooms[r].participants[u].card) :
                          u \in DOMAIN rooms[r].participants} : r \in DOMAIN rooms}
    \cup UNION {Range(rooms[r].drawnNumbers) : r \in DOMAIN rooms}

\* Spec stops drawing in a room at MaxDraws numbers.
DrawBounded(roomId) ==
    roomId \in DOMAIN rooms => Len(rooms[roomId].drawnNumbers) < MaxDraws

Next ==
    \/ \E hostName \in HostNames : CreateRoom(hostName, CardSize)
    \/ \E roomId \in RoomIds : GetRoom(roomId)
    \/ \E roomId \in RoomIds, participantName \in ParticipantNames :
           JoinRoom(roomId, participantName)
    \/ \E s \in SocketIds : Connect(s)
    \/ \E s \in SocketIds, roomId \in RoomIds : JoinAsHost(s, roomId, HostUserId)
    \/ \E s \in SocketIds, roomId \in RoomIds, userId \in ParticipantIds :
           JoinAsParticipant(s, roomId, userId)
    \/ \E s \in SocketIds, roomId \in RoomIds : DrawBounded(roomId) /\ DrawNumber(s, roomId)
    \/ \E s \in SocketIds, roomId \in RoomIds, userId \in ParticipantIds :
           \E number \in MarkInputs : MarkNumber(s, roomId, userId, number)
    \/ \E s \in SocketIds, roomId \in RoomIds : ResetDraw(s, roomId)
    \/ \E s \in SocketIds, roomId \in RoomIds : GetRoomState(s, roomId)
    \/ \E s \in SocketIds : Disconnect(s)
    \/ Deliver

Spec == Init /\ [][Next]_vars

\* One room, drawn to exhaustion: the host's connection, draws and resets.
NextDraw ==
    \/ \E hostName \in HostNames : DOMAIN rooms = {} /\ CreateRoom(hostName, CardSize)
    \/ \E s \in SocketIds : Connect(s)
    \/ \E s \in SocketIds, roomId \in RoomIds : JoinAsHost(s, roomId, HostUserId)
    \/ \E s \in SocketIds, roomId \in RoomIds : DrawNumber(s, roomId)
    \/ \E s \in SocketIds, roomId \in RoomIds : ResetDraw(s, roomId)
    \/ \E s \in SocketIds : Disconnect(s)
    \/ DeliverObserved

SpecDraw == Init /\ [][NextDraw]_vars

\* One room and its participants: marks, bingo and resets.
NextMark ==
    \/ \E hostName \in HostNames : DOMAIN rooms = {} /\ CreateRoom(hostName, CardSize)
    \/ \E roomId \in RoomIds, participantName \in ParticipantNames :
           JoinRoom(roomId, participantName)
    \/ \E s \in SocketIds : Connect(s)
    \/ \E s \in SocketIds, roomId \in RoomIds : JoinAsHost(s, roomId, HostUserId)
    \/ \E s \in SocketIds, roomId \in RoomIds, userId \in ParticipantIds :
           \E number \in MarkInputs : MarkNumber(s, roomId, userId, number)
    \/ \E s \in SocketIds, roomId \in RoomIds : ResetDraw(s, roomId)
    \/ DeliverObserved

SpecMark == Init /\ [][NextMark]_vars

\* One room drawn to exhaustion, the do-while loop of drawNumber as a step.
NextLoop ==
    \/ \E hostName \in HostNames : DOMAIN rooms = {} /\ CreateRoom(hostName, CardSize)
    \/ \E s \in SocketIds : Connect(s)
    \/ \E s \in SocketIds, roomId \in RoomIds : JoinAsHost(s, roomId, HostUserId)
    \/ \E s \in SocketIds, roomId \in RoomIds : DrawEnter(s, roomId)
    \/ DrawSample
    \/ \E s \in SocketIds, roomId \in RoomIds : ResetDraw(s, roomId)
    \/ ~Sampling /\ Deliver

\* Fair sampling: Math.random does not return drawn numbers forever when a
\* number that is not drawn exists.
SpecLoop == Init /\ [][NextLoop]_vars /\ WF_vars(DrawSample)

\* generateBingoCard alone, called with the card sizes createRoom accepts.
InitCard ==
    /\ rooms = EmptyMap
    /\ users = EmptyMap
    /\ connected = {}
    /\ joined = [s \in SocketIds |-> {}]
    /\ ev = NoEvent
    /\ sent = <<>>
    /\ drawCount = [r \in RoomIds |-> 0]
    /\ announced = {}
    /\ seen = [u \in ParticipantIds |-> <<>>]
    /\ trail = NoTrail
    /\ viewDrawn = [s \in ViewerIds |-> [r \in RoomIds |-> NotSent]]
    /\ viewMarks = [s \in ViewerIds |-> [u \in ParticipantIds |-> NotSent]]
    /\ gen \in {Call(numbersPerCard) : numbersPerCard \in 1..MaxCardInput}

NextCard ==
    \/ SampleColumn
    \/ ReturnCard

SpecCard == InitCard /\ [][NextCard]_vars

\* InitView: Init with the socket.io membership of MaxViewers connections.
InitView ==
    /\ rooms = EmptyMap
    /\ users = EmptyMap
    /\ connected = {}
    /\ joined = [s \in ViewerIds |-> {}]
    /\ ev = NoEvent
    /\ sent = <<>>
    /\ drawCount = [r \in RoomIds |-> 0]
    /\ announced = {}
    /\ seen = [u \in ParticipantIds |-> <<>>]
    /\ trail = NoTrail
    /\ viewDrawn = [s \in ViewerIds |-> [r \in RoomIds |-> NotSent]]
    /\ viewMarks = [s \in ViewerIds |-> [u \in ParticipantIds |-> NotSent]]
    /\ gen = NoCall

\* Several connections on one room with one participant: what each is sent.
NextView ==
    \/ \E hostName \in HostNames : DOMAIN rooms = {} /\ CreateRoom(hostName, CardSize)
    \/ \E roomId \in RoomIds, participantName \in ParticipantNames :
           AllParticipantIds = {} /\ JoinRoom(roomId, participantName)
    \/ \E s \in ViewerIds : Connect(s)
    \/ \E s \in ViewerIds, roomId \in RoomIds : JoinAsHost(s, roomId, HostUserId)
    \/ \E s \in ViewerIds, roomId \in RoomIds, userId \in ParticipantIds :
           JoinAsParticipant(s, roomId, userId)
    \/ \E s \in ViewerIds, roomId \in RoomIds : DrawBounded(roomId) /\ DrawNumber(s, roomId)
    \/ \E s \in ViewerIds, roomId \in RoomIds, userId \in ParticipantIds :
           \E number \in MarkInputs : MarkNumber(s, roomId, userId, number)
    \/ \E s \in ViewerIds, roomId \in RoomIds : ResetDraw(s, roomId)
    \/ \E s \in ViewerIds : Disconnect(s)
    \/ DeliverViewed

SpecView == InitView /\ [][NextView]_vars

\* ------------------------------------------------------------------ claims
Succeeded == ~Idle /\ \A i \in 1..Len(sent) : sent[i].name # "error"

Failed == ~Idle /\ \E i \in 1..Len(sent) : sent[i].name = "error"

OneToMax == [i \in 1..maxNumber |-> i]

\* C1: in every reachable state, every room's drawnNumbers holds no value
\* twice, holds only integers of 1..75, is at most 75 long and is in ascending
\* order.
C1_DrawnNumbersValid ==
    \A r \in DOMAIN rooms :
        LET drawn == rooms[r].drawnNumbers
        IN  /\ NoDuplicates(drawn)
            /\ Range(drawn) \subseteq 1..75
            /\ Len(drawn) <= 75
            /\ \A i \in 1..(Len(drawn) - 1) : drawn[i] <= drawn[i + 1]

\* The third draw of a room has put its number before one drawn earlier.
C1_Witness ==
    /\ ev.op = "drawNumber"
    /\ Succeeded
    /\ LET drawn == rooms[ev.roomId].drawnNumbers
       IN  /\ Len(drawn) >= 3
           /\ sent[1].data.number < drawn[Len(drawn)]
    /\ drawCount[ev.roomId] = 2

\* C2: once 75 numberDrawn broadcasts have left a room since its creation or
\* last reset, its drawnNumbers is 1, 2, ..., 75, and a further drawNumber by
\* a host is answered with the exhausted error alone (nothing is broadcast) and
\* leaves drawnNumbers as it is.
C2_SeventyFiveDrawsThenExhausted ==
    \A r \in DOMAIN rooms :
        drawCount[r] = 75 =>
            /\ Idle => rooms[r].drawnNumbers = OneToMax
            /\ (/\ ev.op = "drawNumber"
                /\ ev.roomId = r
                /\ ev.sock \in DOMAIN users
                /\ users[ev.sock].isHost)
                   => /\ sent = <<SocketError(ev.sock, ErrAllDrawn)>>
                      /\ rooms[r].drawnNumbers = OneToMax

\* The 76th drawNumber of a room has been refused.
C2_Witness ==
    /\ ev.op = "drawNumber"
    /\ ev.roomId \in DOMAIN rooms
    /\ drawCount[ev.roomId] = 75
    /\ sent = <<SocketError(ev.sock, ErrAllDrawn)>>

\* The error message a connection expects, as the pages read it.
ErrorTo(s, message) ==
    [to |-> [kind |-> "socket", id |-> s], name |-> "error", data |-> [message |-> message]]

DrawnOf(rs) == [r \in DOMAIN rs |-> rs[r].drawnNumbers]

MarksOf(rs) ==
    [r \in DOMAIN rs |->
        [u \in DOMAIN rs[r].participants |-> rs[r].participants[u].markedNumbers]]

AllMarked(participant) ==
    /\ Len(participant.markedNumbers) = Len(participant.card)
    /\ Range(participant.markedNumbers) = Range(participant.card)

\* C3: a drawNumber or resetDraw of a connection with a participant session
\* or with no session is answered with the authorization error alone, sent to
\* that connection, and changes no room's drawnNumbers and no participant's
\* markedNumbers.
C3_NonHostRejected ==
    [][(/\ Idle
        /\ ev'.op \in {"drawNumber", "resetDraw"}
        /\ (ev'.sock \notin DOMAIN users \/ users[ev'.sock].isHost = FALSE))
           => /\ sent' = <<ErrorTo(ev'.sock, IF ev'.op = "drawNumber"
                                             THEN ErrOnlyHostDraws
                                             ELSE ErrOnlyHostResets)>>
              /\ DrawnOf(rooms') = DrawnOf(rooms)
              /\ MarksOf(rooms') = MarksOf(rooms)]_vars

\* A participant's connection has asked to reset a room that has a drawn
\* number and a marked number, and was refused.
C3_Witness ==
    /\ ev.op = "resetDraw"
    /\ ev.sock \in DOMAIN users
    /\ ~users[ev.sock].isHost
    /\ sent = <<ErrorTo(ev.sock, ErrOnlyHostResets)>>
    /\ ev.roomId \in DOMAIN rooms
    /\ rooms[ev.roomId].drawnNumbers # <<>>
    /\ \E u \in DOMAIN rooms[ev.roomId].participants :
           rooms[ev.roomId].participants[u].markedNumbers # <<>>

\* C5: the hasBingo of every numberMarked is true exactly when, after the
\* toggle, the participant's markedNumbers is as long as the card and covers
\* it; a markNumber of the free cell is refused.
C5_HasBingoIffAllMarked ==
    (ev.op = "markNumber" /\ ~Idle) =>
        /\ Succeeded =>
               /\ sent[1].name = "numberMarked"
               /\ sent[1].data.hasBingo
                      <=> AllMarked(rooms[ev.roomId].participants[ev.userId])
        /\ ev.number = Null => Failed

\* A card has been completed in a room where no number was drawn.
C5_Witness ==
    /\ ev.op = "markNumber"
    /\ Succeeded
    /\ sent[1].data.hasBingo
    /\ rooms[ev.roomId].drawnNumbers = <<>>
    /\ Len(rooms[ev.roomId].participants[ev.userId].card) = CardSize

\* C6: in every reachable state every marked number of every participant is
\* a number of the participant's card, and no number is marked twice.
C6_MarksOnCardOnce ==
    \A r \in DOMAIN rooms :
        \A u \in DOMAIN rooms[r].participants :
            LET participant == rooms[r].participants[u]
            IN  /\ Range(participant.markedNumbers) \subseteq Range(participant.card)
                /\ NoDuplicates(participant.markedNumbers)

\* A markNumber has taken a mark away from a participant who keeps another.
C6_Witness ==
    /\ ev.op = "markNumber"
    /\ Succeeded
    /\ LET participant == rooms[ev.roomId].participants[ev.userId]
       IN  /\ ~Includes(participant.markedNumbers, ev.number)
           /\ participant.markedNumbers # <<>>

\* C8: a markNumber with a number that is not on the participant's card is
\* answered with the validation error alone, sent to the acting connection (no
\* numberMarked, no bingo), and leaves every markedNumbers as it was.
C8_OffCardRejected ==
    [][(/\ Idle
        /\ ev'.op = "markNumber"
        /\ ev'.roomId \in DOMAIN rooms
        /\ ev'.userId \in DOMAIN rooms[ev'.roomId].participants
        /\ ev'.number \notin Range(rooms[ev'.roomId].participants[ev'.userId].card))
           => /\ sent' = <<ErrorTo(ev'.sock, ErrNotOnCard)>>
              /\ MarksOf(rooms') = MarksOf(rooms)]_vars

\* A drawn number that is not on the card was refused to a participant who
\* has marks.
C8_Witness ==
    /\ ev.op = "markNumber"
    /\ ev.number \in 1..75
    /\ sent = <<ErrorTo(ev.sock, ErrNotOnCard)>>
    /\ rooms[ev.roomId].participants[ev.userId].markedNumbers # <<>>
    /\ Includes(rooms[ev.roomId].drawnNumbers, ev.number)

\* C9: a resetDraw that is not refused leaves the room with no drawn number,
\* a null lastDrawnAt and no mark, with the same participants and cards,
\* broadcasts the room as reset to the room, and changes no other room.
C9_ResetClearsRoomOnly ==
    [][(/\ Idle
        /\ ev'.op = "resetDraw"
        /\ \A i \in 1..Len(sent') : sent'[i].name # "error")
           => LET r == ev'.roomId
              IN  /\ DOMAIN rooms' = DOMAIN rooms
                  /\ r \in DOMAIN rooms
                  /\ rooms'[r].drawnNumbers = <<>>
                  /\ rooms'[r].lastDrawnAt = Null
                  /\ DOMAIN rooms'[r].participants = DOMAIN rooms[r].participants
                  /\ \A u \in DOMAIN rooms[r].participants :
                         /\ rooms'[r].participants[u].markedNumbers = <<>>
                         /\ rooms'[r].participants[u].card = rooms[r].participants[u].card
                         /\ rooms'[r].participants[u].name = rooms[r].participants[u].name
                         /\ rooms'[r].participants[u].id = rooms[r].participants[u].id
                  /\ rooms'[r].numbersPerCard = rooms[r].numbersPerCard
                  /\ rooms'[r].hostName = rooms[r].hostName
                  /\ sent' = <<[to |-> [kind |-> "room", id |-> r], name |-> "drawReset",
                                data |-> [room |-> rooms'[r]]]>>
                  /\ \A q \in DOMAIN rooms \ {r} : rooms'[q] = rooms[q]]_vars

\* A room with a participant has been reset while another room holds a drawn
\* number and a marked number.
C9_Witness ==
    /\ ev.op = "resetDraw"
    /\ Succeeded
    /\ rooms[ev.roomId].participants # EmptyMap
    /\ \E q \in DOMAIN rooms \ {ev.roomId} :
           /\ rooms[q].drawnNumbers # <<>>
           /\ \E u \in DOMAIN rooms[q].participants :
                  rooms[q].participants[u].markedNumbers # <<>>

SocketOps ==
    {"joinAsHost", "joinAsParticipant", "drawNumber", "markNumber", "resetDraw",
     "getRoomState"}

ErrorMessages ==
    {ErrRoomNotFound, ErrParticipantNotInRoom, ErrOnlyHostDraws, ErrAllDrawn,
     ErrParticipantNotFound, ErrNotOnCard, ErrOnlyHostResets}

\* The error cases of a socket event e in the state it arrives in.
ErrorCase(e) ==
    \/ e.roomId \notin DOMAIN rooms
    \/ /\ e.op \in {"joinAsParticipant", "markNumber"}
       /\ e.userId \notin DOMAIN rooms[e.roomId].participants
    \/ /\ e.op \in {"drawNumber", "resetDraw"}
       /\ (e.sock \notin DOMAIN users \/ users[e.sock].isHost = FALSE)
    \/ /\ e.op = "drawNumber"
       /\ Len(rooms[e.roomId].drawnNumbers) >= 75
    \/ /\ e.op = "markNumber"
       /\ e.userId \in DOMAIN rooms[e.roomId].participants
       /\ e.number \notin Range(rooms[e.roomId].participants[e.userId].card)

BingoMessages(messages) == {i \in 1..Len(messages) : messages[i].name = "bingo"}

\* C4, as claimed: between two resets of a room at most one bingo is broadcast
\* for a participant, and one is if the participant ever has every card number
\* marked.
C4_OneBingoPerCycle ==
    /\ \A i \in BingoMessages(sent) : sent[i].data.participantId \notin announced
    /\ Idle => \A r \in DOMAIN rooms :
                   \A u \in DOMAIN rooms[r].participants :
                       AllMarked(rooms[r].participants[u]) => u \in announced

\* C4, amended: a bingo is broadcast once, to the room and for the acting
\* participant, by every markNumber that leaves the participant with every card
\* number marked, and by nothing else; so a participant who has every number
\* marked has been announced since the last reset, and one who unmarks a
\* number and marks it again is announced again.
C4_BingoPerCompletion ==
    /\ (ev.op = "markNumber" /\ Succeeded) =>
           LET participant == rooms[ev.roomId].participants[ev.userId]
               bingo == [to |-> [kind |-> "room", id |-> ev.roomId], name |-> "bingo",
                         data |-> [participantId |-> ev.userId,
                                   participantName |-> participant.name]]
           IN  IF AllMarked(participant)
               THEN Len(sent) = 2 /\ sent[1].name = "numberMarked" /\ sent[2] = bingo
               ELSE Len(sent) = 1 /\ sent[1].name = "numberMarked"
    /\ ~(ev.op = "markNumber" /\ Succeeded) => BingoMessages(sent) = {}
    /\ Idle => \A r \in DOMAIN rooms :
                   \A u \in DOMAIN rooms[r].participants :
                       AllMarked(rooms[r].participants[u]) => u \in announced

\* A bingo is being broadcast for a participant already announced since the
\* last reset.
C4_Witness ==
    /\ ev.op = "markNumber"
    /\ \E i \in BingoMessages(sent) : sent[i].data.participantId \in announced

\* The marks left by unmarking and marking again, or marking and unmarking,
\* number in markedNumbers.
AfterDoubleToggle(markedNumbers, number) ==
    IF Includes(markedNumbers, number)
    THEN SelectSeq(markedNumbers, LAMBDA x : x # number) \o <<number>>
    ELSE markedNumbers

\* C7, as claimed: two successful markNumber of one number by one participant,
\* one after the other, leave markedNumbers as it was before them.
C7_DoubleToggleRestores == trail.count = 2 => trail.after = trail.before

\* C7, amended: two successful markNumber of one number by one participant,
\* one after the other, leave the same numbers marked; the array is the prior
\* one unless the number was marked before other marks, and then the number has
\* moved to the end.
C7_DoubleToggleRestoresSet ==
    trail.count = 2 =>
        /\ Range(trail.after) = Range(trail.before)
        /\ Len(trail.after) = Len(trail.before)
        /\ trail.after = AfterDoubleToggle(trail.before, trail.number)

\* A number marked before another has been unmarked and marked again.
C7_Witness ==
    /\ trail.count = 2
    /\ Len(trail.before) = 2
    /\ trail.before[1] = trail.number
    /\ trail.after # trail.before

\* C11: between two events, every open connection that joined room R with a
\* successful joinAsHost or joinAsParticipant holds, as the drawnNumbers last
\* sent to it for R by roomJoined, numberDrawn or drawReset, the drawnNumbers
\* of R in rooms.
C11_SubscribersSeeDrawnNumbers ==
    Idle => \A s \in connected :
                \A r \in joined[s] :
                    /\ r \in DOMAIN rooms
                    /\ viewDrawn[s][r] = rooms[r].drawnNumbers

\* Two connections are in a room, and a number has been drawn in it since the
\* one that does not host it joined.
C11_Witness ==
    /\ Idle
    /\ \E s, t \in connected :
           /\ s # t
           /\ s \in DOMAIN users /\ t \in DOMAIN users
           /\ users[s].isHost /\ ~users[t].isHost
           /\ \E r \in joined[s] \cap joined[t] :
                  /\ rooms[r].drawnNumbers # <<>>
                  /\ viewDrawn[t][r] = rooms[r].drawnNumbers
                  /\ viewMarks[t][users[t].userId] # NotSent

\* C12, as claimed: between two events, every open connection whose session
\* is that of participant P of room R holds, as the markedNumbers of P last
\* sent to it by roomJoined, numberMarked or drawReset, the markedNumbers of P
\* in rooms, also when another connection toggled them.
C12_ParticipantSeesOwnMarks ==
    Idle => \A s \in connected \cap DOMAIN users :
                (/\ ~users[s].isHost
                 /\ users[s].roomId \in DOMAIN rooms
                 /\ users[s].userId \in DOMAIN rooms[users[s].roomId].participants)
                    => viewMarks[s][users[s].userId]
                           = rooms[users[s].roomId].participants[users[s].userId].markedNumbers

\* C15: a disconnect deletes the session of the closing connection and takes
\* it out of the rooms it joined; rooms and the sessions and memberships of
\* the other connections stay as they were, and nothing is emitted.
C15_DisconnectDropsOwnSession ==
    [][(Idle /\ ev'.op = "disconnect")
           => LET s == ev'.sock
              IN  /\ rooms' = rooms
                  /\ DOMAIN users' = DOMAIN users \ {s}
                  /\ \A t \in DOMAIN users \ {s} : users'[t] = users[t]
                  /\ \A t \in ViewerIds \ {s} : joined'[t] = joined[t]
                  /\ connected' = connected \ {s}
                  /\ sent' = <<>>]_vars

\* The host's connection has closed while a participant's connection is in the
\* room, which holds a drawn number and a marked number.
C15_Witness ==
    /\ ev.op = "disconnect"
    /\ sent = <<>>
    /\ ev.sock \notin DOMAIN users
    /\ \E t \in connected \cap DOMAIN users :
           /\ ~users[t].isHost
           /\ users[t].roomId \in joined[t]
           /\ rooms[users[t].roomId].drawnNumbers # <<>>
           /\ rooms[users[t].roomId].participants[users[t].userId].markedNumbers # <<>>
           /\ viewDrawn[ev.sock][users[t].roomId] = rooms[users[t].roomId].drawnNumbers

\* The cells of a grid that hold null.
NullCells(grid) == {i \in 1..Len(grid) : grid[i] = Null}

\* The place in a grid of the cell at row and col.
CellAt(row, col) == row * 5 + col + 1

\* C13: for every card size n of 1..75 the target counts of the five columns
\* add up to n, the center column's is floor(n / 5), the sampling loops end,
\* and the flat number list returned has n elements, no two equal, all in
\* 1..75.
C13_CardHasSizeDistinctNumbers ==
    (gen.pc # "none" /\ gen.numbersPerCard \in 1..75) =>
        LET n == gen.numbersPerCard
            counts == targetCounts(n)
        IN  /\ counts[0] + counts[1] + counts[2] + counts[3] + counts[4] = n
            /\ counts[2] = n \div 5
            /\ gen.pc # "spinning"
            /\ gen.pc = "returned" =>
                   /\ Len(gen.numbers) = n
                   /\ NoDuplicates(gen.numbers)
                   /\ Range(gen.numbers) \subseteq 1..75

\* A card of a size that is no multiple of 5 has been returned, holding 1
\* and 75.
C13_Witness ==
    /\ gen.pc = "returned"
    /\ gen.numbersPerCard % 5 = 3
    /\ gen.numbersPerCard > 20
    /\ gen.numbers[1] = 1
    /\ gen.numbers[Len(gen.numbers)] = 75

\* C14, as claimed: for every card size of 1..75 the grid returned holds one
\* null cell, the cell at (centerRow, centerCol), with centerRow =
\* floor(rowCount / 2) and rowCount = ceil((size + 1) / 5).
C14_OneFreeCell ==
    (gen.pc = "returned" /\ gen.numbersPerCard \in 1..75) =>
        LET rowCount == (gen.numbersPerCard + 1 + 4) \div 5
        IN  NullCells(gen.grid) = {CellAt(rowCount \div 2, 2)}

\* C14, amended: for every card size of 1..75 the grid has rowCount =
\* ceil((size + 1) / 5) rows of 5 cells and the cell at (centerRow, centerCol),
\* centerRow = floor(rowCount / 2), is null; the grid holds 5 - size mod 5
\* null cells in all, the others in the last row, so the free cell is the only
\* null cell exactly when size mod 5 = 4.
C14_FreeCellAtCenter ==
    (gen.pc = "returned" /\ gen.numbersPerCard \in 1..75) =>
        LET n == gen.numbersPerCard
            rowCount == (n + 1 + 4) \div 5
            free == CellAt(rowCount \div 2, 2)
        IN  /\ Len(gen.grid) = 5 * rowCount
            /\ gen.numbersPerCol = rowCount
            /\ gen.centerRow = rowCount \div 2
            /\ free \in NullCells(gen.grid)
            /\ Cardinality(NullCells(gen.grid)) = 5 - (n % 5)
            /\ \A i \in NullCells(gen.grid) \ {free} : (i - 1) \div 5 = rowCount - 1
            /\ NullCells(gen.grid) = {free} <=> n % 5 = 4

\* A card of 25 numbers has been returned: its grid has six rows and null
\* cells besides the free cell.
C14_Witness ==
    /\ gen.pc = "returned"
    /\ gen.numbersPerCard = 25
    /\ Len(gen.grid) = 30
    /\ gen.grid[CellAt(3, 2)] = Null
    /\ Cardinality(NullCells(gen.grid)) = 5

\* C19, as claimed: for every positive card size createRoom accepts, the
\* sampling loop of every column reaches its target count, which is at most
\* the 15 numbers of the column's range, none runs forever, and the call
\* returns a card of that size.
C19_ColumnsFitRanges ==
    gen.pc # "none" =>
        /\ gen.pc # "spinning"
        /\ \A col \in 0..(Len(gen.columnNumbers) - 1) :
               /\ Len(gen.columnNumbers[col + 1]) = targetCounts(gen.numbersPerCard)[col]
               /\ Len(gen.columnNumbers[col + 1]) <= 15
        /\ gen.pc = "returned" => Len(gen.numbers) = gen.numbersPerCard

\* C20: for every card size of 1..75, every number of the flat list is in
\* one cell of the grid and no other, that cell is in the column whose range
\* holds the number (column c: 15c + 1 .. 15c + 15), the grid holds nothing
\* but these numbers and null, and the numbers of a column grow from the top
\* row to the bottom row.
C20_GridHoldsEveryNumber ==
    (gen.pc = "returned" /\ gen.numbersPerCard \in 1..75) =>
        LET grid == gen.grid
            cells == 1..Len(grid)
        IN  /\ \A k \in 1..Len(gen.numbers) :
                   LET at == {i \in cells : grid[i] = gen.numbers[k]}
                   IN  /\ Cardinality(at) = 1
                       /\ \A i \in at :
                              LET c == (i - 1) % 5
                              IN  grid[i] \in (15 * c + 1)..(15 * c + 15)
            /\ \A i \in cells : grid[i] = Null \/ grid[i] \in Range(gen.numbers)
            /\ \A i, j \in cells :
                   (/\ i < j
                    /\ (i - 1) % 5 = (j - 1) % 5
                    /\ grid[i] # Null
                    /\ grid[j] # Null) => grid[i] < grid[j]

\* A card of a multiple of 5 numbers has been returned: its center column
\* holds numbers above and below the free cell, and its last row one number.
C20_Witness ==
    /\ gen.pc = "returned"
    /\ gen.numbersPerCard = 30
    /\ gen.grid[CellAt(2, 2)] # Null
    /\ gen.grid[CellAt(3, 2)] = Null
    /\ gen.grid[CellAt(6, 2)] # Null
    /\ gen.grid[CellAt(6, 0)] = Null

\* C16: no event takes a participant out of a room or changes the
\* participant's card, id or name; a room with participants stays; only
\* markedNumbers of a participant changes.
C16_ParticipantsKeepCards ==
    [][\A r \in DOMAIN rooms :
           \A u \in DOMAIN rooms[r].participants :
               /\ r \in DOMAIN rooms'
               /\ u \in DOMAIN rooms'[r].participants
               /\ rooms'[r].participants[u].card = rooms[r].participants[u].card
               /\ [rooms'[r].participants[u] EXCEPT !.markedNumbers = <<>>]
                      = [rooms[r].participants[u] EXCEPT !.markedNumbers = <<>>]]_vars

\* A second participant has joined a room whose first participant has marks.
C16_Witness ==
    /\ ev.op = "joinRoom"
    /\ Len(sent) = 2
    /\ sent[2].data.status = 200
    /\ Cardinality(DOMAIN rooms[ev.roomId].participants) = 2
    /\ \E u \in DOMAIN rooms[ev.roomId].participants :
           rooms[ev.roomId].participants[u].markedNumbers # <<>>

\* A host's drawNumber has been sent for a room that exists.
HostDraw ==
    /\ ev.op = "drawNumber"
    /\ ev.sock \in DOMAIN users
    /\ users[ev.sock].isHost
    /\ ev.roomId \in DOMAIN rooms

\* drawNumber has ended with numberDrawn or with the exhausted error.
DrawEnded ==
    /\ ev.op = "drawNumber"
    /\ Len(sent) = 1
    /\ \/ sent[1].name = "numberDrawn" /\ sent[1].to = [kind |-> "room", id |-> ev.roomId]
       \/ sent[1] = ErrorTo(ev.sock, ErrAllDrawn)

\* C17: the do-while loop of drawNumber runs only while a number of 1..75 is
\* not in the room's drawnNumbers, and under fair sampling every drawNumber of
\* a host ends, with a numberDrawn broadcast or with the exhausted error.
C17_DrawLoopEnds ==
    /\ [](Sampling => \E n \in 1..75 : ~Includes(rooms[ev.roomId].drawnNumbers, n))
    /\ (HostDraw ~> DrawEnded)

\* The loop is running in a room where one number is left to draw.
C17_Witness ==
    /\ Sampling
    /\ Len(rooms[ev.roomId].drawnNumbers) = 74

\* C18, as claimed: a drawNumber or resetDraw that changes room R comes from
\* a connection whose session is a host session of room R.
C18_OnlyRoomHostDrawsOrResets ==
    [][(/\ Idle
        /\ ev'.op \in {"drawNumber", "resetDraw"}
        /\ ev'.roomId \in DOMAIN rooms
        /\ rooms'[ev'.roomId] # rooms[ev'.roomId])
           => /\ ev'.sock \in DOMAIN users
              /\ users[ev'.sock].isHost
              /\ users[ev'.sock].roomId = ev'.roomId]_vars

====
